---- MODULE Spec2Model ----
(***************************************************************************)
(* Model of bonobo's NodeExecutionContext (execution/contexts/node.py):    *)
(* the queue-driven run loop of one worker, its routing of resolved        *)
(* values, and the resolution protocol split_tokens / _resolve.            *)
(***************************************************************************)
EXTENDS Integers, Sequences, FiniteSets, TLC

(***************************************************************************)
(* Bounds of the model.                                                    *)
(***************************************************************************)
\* longest tuple a transformation returns in the resolution specification
MaxTupleLen == 3

\* messages producers write in all
MaxWrites == 2

\* Bags put on the input queue in all, by producers and by loopback sends
MaxIn == 2

\* values a generator yields
MaxGen == 2

\* sinks in self.outputs
NumOutputs == 2

(***************************************************************************)
(* Values.  Python values are tagged records:                              *)
(*   token  - one of the singletons BEGIN, END, NOT_MODIFIED               *)
(*   raw    - a bare value ("" is the falsy one)                           *)
(*   tuple  - a tuple of tokens and raw values                             *)
(*   bag    - a Bag instance; id is the instance's identity                *)
(*   none   - None                                                         *)
(*   raise  - no value: the exception raised instead                       *)
(*   gen    - a generator, by the values it yields                         *)
(***************************************************************************)
Token(n) == [kind |-> "token", name |-> n]

NOT_MODIFIED == Token("NOT_MODIFIED")

BEGIN == Token("BEGIN")

END == Token("END")

\* an exception the call of the transformation raises
Raised(e) == [kind |-> "raise", exc |-> e]

Raw(v) == [kind |-> "raw", val |-> v]

Tuple(s) == [kind |-> "tuple", elems |-> s]

None == [kind |-> "none"]

\* A Bag instance: positional arguments and the error / loopback markers.
MkBag(i, a, e, l) == [kind |-> "bag", id |-> i, args |-> a, error |-> e, loopback |-> l]

\* Bag(x): a tuple is unpacked into the positional arguments, any other
\* value becomes the single positional argument.
Bag(x, i) == MkBag(i, IF x.kind = "tuple" THEN x.elems ELSE <<x>>, FALSE, FALSE)

isbag(v) == v.kind = "bag"

istuple(v) == v.kind = "tuple"

istoken(v) == v.kind = "token"

iserrorbag(v) == isbag(v) /\ v.error

isloopbackbag(v) == isbag(v) /\ v.loopback

(***************************************************************************)
(* Resolution protocol.                                                    *)
(***************************************************************************)
\* isflag(param): isinstance(param, Token) and param in (NOT_MODIFIED, )
isflag(param) == istoken(param) /\ param \in {NOT_MODIFIED}

\* The while loop of split_tokens: i is the 0-based index read next.  Reading
\* output[i] with i = len(output) raises IndexError, returned here as -1.
RECURSIVE flag_scan(_, _)
flag_scan(elems, i) ==
    IF i >= Len(elems) THEN -1
    ELSE IF isflag(elems[i + 1]) THEN flag_scan(elems, i + 1)
    ELSE i

\* split_tokens(output): (tokens, data), or the IndexError of the scan.
split_tokens(output) ==
    IF istoken(output) THEN [raised |-> "none", tokens |-> <<output>>, data |-> <<>>]
    ELSE IF ~istuple(output) THEN [raised |-> "none", tokens |-> <<>>, data |-> <<output>>]
    ELSE LET i == flag_scan(output.elems, 0)
         IN  IF i < 0
             THEN [raised |-> "IndexError", tokens |-> <<>>, data |-> <<>>]
             ELSE [raised |-> "none",
                   tokens |-> SubSeq(output.elems, 1, i),
                   data   |-> SubSeq(output.elems, i + 1, Len(output.elems))]

\* _resolve that passes the input bag through for any leading run of flags
_resolve_AnyFlagRun(input_bag, output, newid) ==
    IF isbag(output) THEN [raised |-> "none", bag |-> output]
    ELSE LET st == split_tokens(output)
         IN  IF st.raised # "none" THEN [raised |-> st.raised, bag |-> None]
             ELSE IF Len(st.tokens) >= 1 /\ st.tokens[1] = NOT_MODIFIED
                  THEN [raised |-> "none", bag |-> input_bag]
             ELSE [raised |-> "none", bag |-> Bag(Tuple(st.data), newid)]

\* _resolve(input_bag, output): the Bag to send, or the exception raised.
\* newid is the identity a Bag created by the call gets.
_resolve(input_bag, output, newid) ==
    IF isbag(output) THEN [raised |-> "none", bag |-> output]
    ELSE LET st == split_tokens(output)
         IN  IF st.raised # "none" THEN [raised |-> st.raised, bag |-> None]
             ELSE IF Len(st.tokens) = 1 /\ st.tokens[1] = NOT_MODIFIED
                  THEN [raised |-> "none", bag |-> input_bag]
             ELSE [raised |-> "none", bag |-> Bag(Tuple(st.data), newid)]

(***************************************************************************)
(* Inputs of the resolution specification.                                 *)
(***************************************************************************)
\* what a tuple returned by a transformation may hold
TupleElems == {NOT_MODIFIED, END, Raw("x")}

SeqsUpTo(S, n) == UNION {[1..k -> S] : k \in 0..n}

\* the outputs resolved: tokens, a bare value, tuples, Bags
ResolveOutputs ==
    {NOT_MODIFIED, BEGIN, END, Raw("x")}
      \cup {Tuple(s) : s \in SeqsUpTo(TupleElems, MaxTupleLen)}
      \cup {MkBag(2, <<Raw("x")>>, FALSE, FALSE), MkBag(2, <<Raw("x")>>, TRUE, FALSE)}

ResolveInputBags == {MkBag(1, <<Raw("x")>>, FALSE, FALSE), MkBag(1, <<>>, FALSE, TRUE)}

NoSplit == [raised |-> "none", tokens |-> <<>>, data |-> <<>>]

NoResult == [raised |-> "none", bag |-> None]

(***************************************************************************)
(* State.                                                                  *)
(***************************************************************************)
VARIABLES
    started, stopped, defunct,  \* flags of the base lifecycle context
    killed,                     \* self._killed
    input,                      \* self.input: the items buffered, oldest first
    inputState,                 \* self.input: "Active" or "ShutDown"
    outputs,                    \* self.outputs: what each sink was handed, in order
    stats,                      \* the counters in, out, err
    errLog,                     \* what the error handler was called with, in order
    errSeen,                    \* history: the input queue's state at each of these calls
    lastEmpty,                  \* history: items dequeued when loop() last met Empty
    nextId,                     \* identity of the next Bag instance created
    pc,                         \* position of the worker's thread
    caller,                     \* what runs step(): "none", "loop" or "write_sync"
    syncLeft,                   \* write_sync: steps still to run
    syncRaised,                 \* the exception the last write_sync call let out
    syncN,                      \* history: messages of the last write_sync call
    syncSteps,                  \* history: step() calls the last write_sync call made
    input_bag,                  \* handle_results: the Bag of the step
    results,                    \* handle_results: what the generator yields next
    genAll,                     \* history: everything the generator of the step yields
    genStart,                   \* history: Len(sendLog) when the generator was returned
    sendLog,                    \* history: the values send() was called with
    putLog,                     \* history: every item put on self.input
    callLog,                    \* history: each dequeued Bag with what the call returned
    dequeued,                   \* history: successful Input.get calls
    written,                    \* history: messages passed to write / write_sync
    killResult,                 \* history: how the last call of kill() ended
    inAtKill,                   \* history: items dequeued when kill() first cut into loop()
    rpc, rInput, rOutput, rSplit, rResult  \* the resolution specification

rvars == <<rpc, rInput, rOutput, rSplit, rResult>>

wvars == <<started, stopped, defunct, killed, input, inputState, outputs, stats,
           errLog, errSeen, lastEmpty, nextId, pc, caller, syncLeft, syncRaised,
           syncN, syncSteps, input_bag, results, genAll, genStart, sendLog, putLog,
           callLog, dequeued, written, killResult, inAtKill>>

vars == <<wvars, rvars>>

(***************************************************************************)
(* The part of the state the worker's methods update, as one record, so    *)
(* that a method that calls another is the composition of the two.         *)
(***************************************************************************)
Self ==
    [input |-> input, inputState |-> inputState, outputs |-> outputs,
     stats |-> stats, errLog |-> errLog, errSeen |-> errSeen,
     lastEmpty |-> lastEmpty, nextId |-> nextId, sendLog |-> sendLog,
     putLog |-> putLog, dequeued |-> dequeued]

Commit(s) ==
    /\ input' = s.input
    /\ inputState' = s.inputState
    /\ outputs' = s.outputs
    /\ stats' = s.stats
    /\ errLog' = s.errLog
    /\ errSeen' = s.errSeen
    /\ lastEmpty' = s.lastEmpty
    /\ nextId' = s.nextId
    /\ sendLog' = s.sendLog
    /\ putLog' = s.putLog
    /\ dequeued' = s.dequeued

\* WithStatistics.increment(name)
increment(s, name) == [s EXCEPT !.stats[name] = @ + 1]

\* the error handler: counts the failure in err and records it
handle_error(s, exc_info) ==
    [increment(s, "err") EXCEPT !.errLog = Append(@, exc_info),
                                !.errSeen = Append(@, s.inputState)]

\* sys.exc_info() of a raised exception
exc_info(exc) == <<Raw(exc)>>

\* Input.put(item)
input_put(s, item) ==
    [s EXCEPT !.input = Append(@, item), !.putLog = Append(@, item)]

\* the buffered items behind the leading control tokens
RECURSIVE skip_tokens(_)
skip_tokens(q) == IF q # <<>> /\ istoken(Head(q)) THEN skip_tokens(Tail(q)) ELSE q

\* Input.get(timeout): the next data item; control tokens are taken off the
\* queue without being handed out.  With nothing buffered it raises Empty
\* after the timeout, or InactiveReadableError once the queue is shut down.
input_get(s) ==
    LET q == skip_tokens(s.input)
    IN  IF q = <<>>
        THEN [raised |-> IF s.inputState = "ShutDown"
                         THEN "InactiveReadableError" ELSE "Empty",
              row |-> None, s |-> [s EXCEPT !.input = q]]
        ELSE [raised |-> "none", row |-> Head(q),
              s |-> [s EXCEPT !.input = Tail(q), !.dequeued = @ + 1]]

\* Input.shutdown()
input_shutdown(s) == [s EXCEPT !.inputState = "ShutDown"]

\* write(message), for one message:
\*   self.input.put(message if isinstance(message, (Bag, Token)) else Bag(message))
write_one(s, message) ==
    IF isbag(message) \/ istoken(message)
    THEN input_put(s, message)
    ELSE [input_put(s, Bag(message, s.nextId)) EXCEPT !.nextId = @ + 1]

\* write(*messages)
RECURSIVE write(_, _)
write(s, messages) ==
    IF messages = <<>> THEN s
    ELSE write(write_one(s, Head(messages)), Tail(messages))

\* the fan-out that stops after the first sink
fan_out_FirstSinkOnly(s, value) ==
    [s EXCEPT !.outputs = [o \in DOMAIN s.outputs |->
                             IF o = 1 THEN Append(s.outputs[o], value) ELSE s.outputs[o]]]

\* for output in self.outputs: output.put(value)
fan_out(s, value) ==
    [s EXCEPT !.outputs = [o \in DOMAIN s.outputs |-> Append(s.outputs[o], value)]]

\* send whose loopback test does not depend on the error test
send_IfNotElif(s, value, control) ==
    LET s1 == IF ~control THEN increment(s, "out") ELSE s
        s2 == [s1 EXCEPT !.sendLog = Append(@, value)]
        s3 == IF iserrorbag(value) THEN handle_error(s2, value.args) ELSE s2
    IN  IF isloopbackbag(value) THEN input_put(s3, value)
        ELSE IF iserrorbag(value) THEN s3
        ELSE fan_out(s3, value)

\* send that counts the control sends instead of the others
send_CountControl(s, value, control) ==
    LET s1 == IF control THEN increment(s, "out") ELSE s
        s2 == [s1 EXCEPT !.sendLog = Append(@, value)]
    IN  IF iserrorbag(value) THEN handle_error(s2, value.args)
        ELSE IF isloopbackbag(value) THEN input_put(s2, value)
        ELSE fan_out(s2, value)

\* send that forwards an error-marked Bag after handing it to the handler
send_ErrorForwarded(s, value, control) ==
    LET s1 == IF ~control THEN increment(s, "out") ELSE s
        s2 == [s1 EXCEPT !.sendLog = Append(@, value)]
    IN  IF iserrorbag(value) THEN fan_out(handle_error(s2, value.args), value)
        ELSE IF isloopbackbag(value) THEN input_put(s2, value)
        ELSE fan_out(s2, value)

\* send(value, _control)
send(s, value, control) ==
    LET s1 == IF ~control THEN increment(s, "out") ELSE s
        s2 == [s1 EXCEPT !.sendLog = Append(@, value)]
    IN  IF iserrorbag(value) THEN handle_error(s2, value.args)
        ELSE IF isloopbackbag(value) THEN input_put(s2, value)
        ELSE fan_out(s2, value)

\* get that counts before it reads the queue
get_CountFirst(s) == input_get(increment(s, "in"))

\* get(): row = self.input.get(timeout=self.PERIOD); self.increment('in')
get(s) ==
    LET g == input_get(s)
    IN  IF g.raised # "none" THEN g ELSE [g EXCEPT !.s = increment(g.s, "in")]

\* should_loop with the killed flag left out
should_loop_IgnoreKilled == ~defunct

\* should_loop(): not any((self.defunct, self.killed))
should_loop == ~(defunct \/ killed)

\* Python's truth value of a returned value
truthy(v) ==
    CASE v.kind = "none"  -> FALSE
      [] v.kind = "raw"   -> v.val # ""
      [] v.kind = "tuple" -> v.elems # <<>>
      [] OTHER            -> TRUE

\* self.send(_resolve(input_bag, result)), and what it raises
resolve_and_send(s, bag, result) ==
    LET r == _resolve(bag, result, s.nextId)
    IN  IF r.raised # "none" THEN [raised |-> r.raised, s |-> s]
        ELSE [raised |-> "none",
              s |-> send(IF r.bag.id = s.nextId THEN [s EXCEPT !.nextId = @ + 1] ELSE s,
                         r.bag, FALSE)]

\* handle_results that sends whatever the call returned
handle_value_SendAlways(s, bag, result) ==
    IF result.kind # "none" THEN resolve_and_send(s, bag, result)
    ELSE [raised |-> "none", s |-> s]

\* handle_results(input_bag, results) for results that is no generator
handle_value(s, bag, result) ==
    IF truthy(result) THEN resolve_and_send(s, bag, result)
    ELSE [raised |-> "none", s |-> s]

(***************************************************************************)
(* What the wrapped transformation may do with a dequeued Bag.             *)
(***************************************************************************)
\* values it returns; a returned Bag gets its identity when the call is made
ValueResults ==
    {None, Tuple(<<>>), Raw("x"), Tuple(<<NOT_MODIFIED>>),
     MkBag(0, <<Raw("failure")>>, TRUE, FALSE),
     MkBag(0, <<Raw("y")>>, FALSE, TRUE),
     MkBag(0, <<Raw("failure")>>, TRUE, TRUE)}

\* exceptions it raises: an ordinary one, UnrecoverableError, and one that
\* is a BaseException only
OrdinaryExceptions == {"Exception", "IndexError"}

RaiseResults == {Raised(e) : e \in {"Exception", "UnrecoverableError", "KeyboardInterrupt"}}

\* the k-th value a generator yields: a bare value of its own at the odd
\* places, NOT_MODIFIED at the even ones
GenItem(k) == IF k % 2 = 1 THEN Raw(<<"g", k>>) ELSE NOT_MODIFIED

\* a generator that never ends: it holds more values than MaxGen, the most
\* the loop requests of it while the worker is not killed
EndlessGen == [kind |-> "gen", items |-> [k \in 1..(MaxGen + 1) |-> GenItem(k)]]

\* generators it returns, by what they yield: n such values, or the last of
\* them the empty tuple instead, or values without end
GenResults ==
    {[kind |-> "gen", items |-> [k \in 1..n |-> GenItem(k)]] : n \in 0..MaxGen}
      \cup {[kind |-> "gen",
             items |-> [k \in 1..MaxGen |->
                          IF k = MaxGen THEN Tuple(<<>>) ELSE GenItem(k)]]}
      \cup {EndlessGen}

Results == ValueResults \cup RaiseResults \cup GenResults

\* messages producers write
Messages == {Raw("x")}

fresh(r, id) == IF isbag(r) THEN [r EXCEPT !.id = id] ELSE r

\* the Bags put on the input queue so far
bags_put(s) == Len(SelectSeq(s.putLog, isbag))

\* the call on row returning r puts a Bag back on the input queue: r carries
\* the loopback marker alone, or is a generator that passes such a row on
recirculates(row, r) ==
    IF r.kind = "gen"
    THEN /\ isloopbackbag(row)
         /\ ~iserrorbag(row)
         /\ \E k \in DOMAIN r.items : r.items[k] = NOT_MODIFIED
    ELSE isloopbackbag(r) /\ ~iserrorbag(r)

\* what the transformation may do with row, the queue being fed MaxIn Bags
\* in all
ResultsFor(s, row) ==
    {r \in Results : recirculates(row, r) => bags_put(s) < MaxIn}

(***************************************************************************)
(* The worker's thread.                                                    *)
(***************************************************************************)
NoGen ==
    /\ input_bag' = None
    /\ results' = <<>>
    /\ genAll' = <<>>
    /\ genStart' = 0

\* the except clauses of loop() with an ordinary failure ending the loop
loop_except_StopOnError(s, exc) ==
    CASE exc = "InactiveReadableError" -> [s |-> s, pc |-> "done"]
      [] exc = "Empty" -> [s |-> s, pc |-> "sleep"]
      [] exc = "UnrecoverableError" ->
            [s |-> input_shutdown(handle_error(s, exc_info(exc))), pc |-> "done"]
      [] OTHER -> [s |-> handle_error(s, exc_info(exc)), pc |-> "done"]

\* the except clauses of loop() without the one for InactiveReadableError
loop_except_InactiveReported(s, exc) ==
    CASE exc = "Empty" -> [s |-> s, pc |-> "sleep"]
      [] exc = "UnrecoverableError" ->
            [s |-> input_shutdown(handle_error(s, exc_info(exc))), pc |-> "done"]
      [] exc \in OrdinaryExceptions \cup {"InactiveReadableError"} ->
            [s |-> handle_error(s, exc_info(exc)), pc |-> "check"]
      [] OTHER -> [s |-> handle_error(s, exc_info(exc)), pc |-> "done"]

\* the except clauses of loop() shutting the queue down before the report
loop_except_ShutdownFirst(s, exc) ==
    CASE exc = "InactiveReadableError" -> [s |-> s, pc |-> "done"]
      [] exc = "Empty" -> [s |-> s, pc |-> "sleep"]
      [] exc = "UnrecoverableError" ->
            [s |-> handle_error(input_shutdown(s), exc_info(exc)), pc |-> "done"]
      [] exc \in OrdinaryExceptions ->
            [s |-> handle_error(s, exc_info(exc)), pc |-> "check"]
      [] OTHER -> [s |-> handle_error(s, exc_info(exc)), pc |-> "done"]

\* the except clauses of loop() treating every failure that ends the loop as
\* UnrecoverableError
loop_except_SevereShutsDown(s, exc) ==
    CASE exc = "InactiveReadableError" -> [s |-> s, pc |-> "done"]
      [] exc = "Empty" -> [s |-> s, pc |-> "sleep"]
      [] exc \in OrdinaryExceptions ->
            [s |-> handle_error(s, exc_info(exc)), pc |-> "check"]
      [] OTHER -> [s |-> input_shutdown(handle_error(s, exc_info(exc))), pc |-> "done"]

\* the except clauses of loop() with Empty ending the loop
loop_except_EmptyEndsLoop(s, exc) ==
    CASE exc \in {"InactiveReadableError", "Empty"} -> [s |-> s, pc |-> "done"]
      [] exc = "UnrecoverableError" ->
            [s |-> input_shutdown(handle_error(s, exc_info(exc))), pc |-> "done"]
      [] exc \in OrdinaryExceptions ->
            [s |-> handle_error(s, exc_info(exc)), pc |-> "check"]
      [] OTHER -> [s |-> handle_error(s, exc_info(exc)), pc |-> "done"]

\* the except clauses of loop(): the state after the handler and where the
\* loop goes on
loop_except(s, exc) ==
    CASE exc = "InactiveReadableError" -> [s |-> s, pc |-> "done"]
      [] exc = "Empty" -> [s |-> s, pc |-> "sleep"]
      [] exc = "UnrecoverableError" ->
            [s |-> input_shutdown(handle_error(s, exc_info(exc))), pc |-> "done"]
      [] exc \in OrdinaryExceptions ->
            [s |-> handle_error(s, exc_info(exc)), pc |-> "check"]
      [] OTHER -> [s |-> handle_error(s, exc_info(exc)), pc |-> "done"]

\* history of loop(): the number of items dequeued when it last met Empty
empty_mark(s, exc) == IF exc = "Empty" THEN s.dequeued ELSE s.lastEmpty

\* step() raised exc: loop() handles it, write_sync lets it out
Raise(s, exc) ==
    /\ NoGen
    /\ IF caller = "loop"
       THEN LET h == loop_except(s, exc)
            IN  /\ Commit([h.s EXCEPT !.lastEmpty = empty_mark(s, exc)])
                /\ pc' = h.pc
                /\ UNCHANGED <<caller, syncLeft, syncRaised>>
       ELSE /\ Commit(s)
            /\ pc' = "idle"
            /\ caller' = "none"
            /\ syncLeft' = 0
            /\ syncRaised' = exc

\* step() returned: loop() tests should_loop() again, write_sync runs the
\* next of its steps
StepDone(s) ==
    /\ NoGen
    /\ Commit(s)
    /\ UNCHANGED syncRaised
    /\ IF caller = "loop"
       THEN pc' = "check" /\ UNCHANGED <<caller, syncLeft>>
       ELSE IF syncLeft > 1
            THEN pc' = "step" /\ syncLeft' = syncLeft - 1 /\ UNCHANGED caller
            ELSE pc' = "idle" /\ syncLeft' = 0 /\ caller' = "none"

\* loop() is called, by the executor, between start() and stop(); it is the
\* body of the worker's thread, and a worker that has one is not driven by
\* write_sync as well
LoopEnter ==
    /\ pc = "idle"
    /\ syncN = 0
    /\ started
    /\ ~stopped
    /\ pc' = "check"
    /\ caller' = "loop"
    /\ UNCHANGED <<started, stopped, defunct, killed, input, inputState, outputs,
                   stats, errLog, errSeen, lastEmpty, nextId, syncLeft, syncRaised,
                   syncN, syncSteps, input_bag, results, genAll, genStart, sendLog,
                   putLog, callLog, dequeued, written, killResult, inAtKill, rvars>>

\* while self.should_loop():
LoopCheck ==
    /\ pc = "check"
    /\ pc' = IF should_loop THEN "step" ELSE "done"
    /\ UNCHANGED <<started, stopped, defunct, killed, input, inputState, outputs,
                   stats, errLog, errSeen, lastEmpty, nextId, caller, syncLeft,
                   syncRaised, syncN, syncSteps, input_bag, results, genAll,
                   genStart, sendLog, putLog, callLog, dequeued, written,
                   killResult, inAtKill, rvars>>

\* except Empty: sleep(self.PERIOD); continue
Sleep ==
    /\ pc = "sleep"
    /\ pc' = "check"
    /\ UNCHANGED <<started, stopped, defunct, killed, input, inputState, outputs,
                   stats, errLog, errSeen, lastEmpty, nextId, caller, syncLeft,
                   syncRaised, syncN, syncSteps, input_bag, results, genAll,
                   genStart, sendLog, putLog, callLog, dequeued, written,
                   killResult, inAtKill, rvars>>

\* step(): get(), the call of the transformation, and handle_results up to
\* its generator loop
Step ==
    /\ pc = "step"
    /\ LET g == get(Self)
       IN  IF g.raised # "none"
           THEN Raise(g.s, g.raised) /\ UNCHANGED callLog
           ELSE \E r \in ResultsFor(g.s, g.row) :
                  /\ callLog' = Append(callLog, [bag |-> g.row, result |-> r])
                  /\ CASE r.kind = "raise" -> Raise(g.s, r.exc)
                       [] r.kind = "gen" ->
                            /\ Commit(g.s)
                            /\ pc' = "gen_check"
                            /\ input_bag' = g.row
                            /\ results' = r.items
                            /\ genAll' = r.items
                            /\ genStart' = Len(g.s.sendLog)
                            /\ UNCHANGED <<caller, syncLeft, syncRaised>>
                       [] OTHER ->
                            LET v == fresh(r, g.s.nextId)
                                s1 == IF isbag(v)
                                      THEN [g.s EXCEPT !.nextId = @ + 1]
                                      ELSE g.s
                                h == handle_value(s1, g.row, v)
                            IN  IF h.raised # "none" THEN Raise(h.s, h.raised)
                                ELSE StepDone(h.s)
    /\ syncSteps' = IF caller = "write_sync" THEN syncSteps + 1 ELSE syncSteps
    /\ UNCHANGED <<started, stopped, defunct, killed, written, killResult, inAtKill,
                   syncN, rvars>>

\* the generator loop that never looks at the kill flag
gen_break_Never == FALSE

\* handle_results, generator loop: if self._killed: break
gen_break == killed

\* the generator of the step never ends and has yielded MaxGen values
gen_capped == Len(genAll) > MaxGen /\ Len(genAll) - Len(results) >= MaxGen

\* the checkpoint of the generator loop
GenCheck ==
    /\ pc = "gen_check"
    /\ gen_break \/ ~gen_capped
    /\ IF gen_break
       THEN StepDone(Self)
       ELSE /\ pc' = "gen_next"
            /\ UNCHANGED <<input, inputState, outputs, stats, errLog, errSeen,
                           lastEmpty, nextId, caller, syncLeft, syncRaised,
                           input_bag, results, genAll, genStart, sendLog, putLog,
                           dequeued>>
    /\ UNCHANGED <<started, stopped, defunct, killed, callLog, written, killResult,
                   inAtKill, syncN, syncSteps, rvars>>

\* result = next(results), then StopIteration: break, else: self.send(...)
GenNext ==
    /\ pc = "gen_next"
    /\ IF results = <<>>
       THEN StepDone(Self)
       ELSE LET h == resolve_and_send(Self, input_bag, Head(results))
            IN  IF h.raised # "none" THEN Raise(h.s, h.raised)
                ELSE /\ Commit(h.s)
                     /\ pc' = "gen_check"
                     /\ results' = Tail(results)
                     /\ UNCHANGED <<caller, syncLeft, syncRaised, input_bag, genAll,
                                    genStart>>
    /\ UNCHANGED <<started, stopped, defunct, killed, callLog, written, killResult,
                   inAtKill, syncN, syncSteps, rvars>>

\* write_sync that runs one step() for each item written, tokens too
WriteSync_StepPerItem(messages) ==
    /\ pc = "idle"
    /\ started
    /\ ~stopped
    /\ written + Len(messages) <= MaxWrites
    /\ bags_put(Self) + Len(messages) <= MaxIn
    /\ Commit(write(Self, <<BEGIN>> \o messages \o <<END>>))
    /\ written' = written + Len(messages)
    /\ pc' = "step"
    /\ caller' = "write_sync"
    /\ syncLeft' = Len(messages) + 2
    /\ syncRaised' = "none"
    /\ syncN' = Len(messages)
    /\ syncSteps' = 0
    /\ UNCHANGED <<started, stopped, defunct, killed, input_bag, results, genAll,
                   genStart, callLog, killResult, inAtKill, rvars>>

\* write_sync(*messages): the write, then one step() for each message
WriteSync(messages) ==
    /\ pc = "idle"
    /\ started
    /\ ~stopped
    /\ written + Len(messages) <= MaxWrites
    /\ bags_put(Self) + Len(messages) <= MaxIn
    /\ Commit(write(Self, <<BEGIN>> \o messages \o <<END>>))
    /\ written' = written + Len(messages)
    /\ pc' = "step"
    /\ caller' = "write_sync"
    /\ syncLeft' = Len(messages)
    /\ syncRaised' = "none"
    /\ syncN' = Len(messages)
    /\ syncSteps' = 0
    /\ UNCHANGED <<started, stopped, defunct, killed, input_bag, results, genAll,
                   genStart, callLog, killResult, inAtKill, rvars>>

(***************************************************************************)
(* The other threads: producers, the executor, whoever kills the worker.   *)
(***************************************************************************)
\* write(message) by a producer
Write(message) ==
    /\ written < MaxWrites
    /\ bags_put(Self) < MaxIn
    /\ Commit(write(Self, <<message>>))
    /\ written' = written + 1
    /\ UNCHANGED <<started, stopped, defunct, killed, pc, caller, syncLeft,
                   syncRaised, syncN, syncSteps, input_bag, results, genAll,
                   genStart, callLog, killResult, inAtKill, rvars>>

\* self.input.shutdown() by another thread
InputShutdown ==
    /\ inputState = "Active"
    /\ Commit(input_shutdown(Self))
    /\ UNCHANGED <<started, stopped, defunct, killed, pc, caller, syncLeft,
                   syncRaised, syncN, syncSteps, input_bag, results, genAll,
                   genStart, callLog, written, killResult, inAtKill, rvars>>

\* history of kill(): the first successful call made while loop() runs marks
\* the number of items dequeued so far
kill_mark ==
    IF inAtKill = -1 /\ caller = "loop" /\ pc # "done" THEN dequeued ELSE inAtKill

\* kill() without the test of stopped
Kill_NoStoppedTest ==
    /\ IF ~started
       THEN killResult' = "RuntimeError" /\ UNCHANGED <<killed, inAtKill>>
       ELSE killResult' = "ok" /\ killed' = TRUE /\ inAtKill' = kill_mark
    /\ UNCHANGED <<started, stopped, defunct, input, inputState, outputs, stats,
                   errLog, errSeen, lastEmpty, nextId, pc, caller, syncLeft,
                   syncRaised, syncN, syncSteps, input_bag, results, genAll,
                   genStart, sendLog, putLog, callLog, dequeued, written, rvars>>

\* kill()
Kill ==
    /\ IF ~started
       THEN killResult' = "RuntimeError" /\ UNCHANGED <<killed, inAtKill>>
       ELSE IF stopped
            THEN killResult' = "RuntimeError" /\ UNCHANGED <<killed, inAtKill>>
            ELSE killResult' = "ok" /\ killed' = TRUE /\ inAtKill' = kill_mark
    /\ UNCHANGED <<started, stopped, defunct, input, inputState, outputs, stats,
                   errLog, errSeen, lastEmpty, nextId, pc, caller, syncLeft,
                   syncRaised, syncN, syncSteps, input_bag, results, genAll,
                   genStart, sendLog, putLog, callLog, dequeued, written, rvars>>

\* the base context's start(); a failing setup leaves the worker defunct
Start ==
    /\ ~started
    /\ started' = TRUE
    /\ defunct' \in BOOLEAN
    /\ UNCHANGED <<stopped, killed, input, inputState, outputs, stats, errLog,
                   errSeen, lastEmpty, nextId, pc, caller, syncLeft, syncRaised,
                   syncN, syncSteps, input_bag, results, genAll, genStart, sendLog,
                   putLog, callLog, dequeued, written, killResult, inAtKill, rvars>>

\* the base context's stop(), once the worker's thread has left loop() or
\* write_sync
Stop ==
    /\ started
    /\ ~stopped
    /\ pc \in {"idle", "done"}
    /\ stopped' = TRUE
    /\ UNCHANGED <<started, defunct, killed, input, inputState, outputs, stats,
                   errLog, errSeen, lastEmpty, nextId, pc, caller, syncLeft,
                   syncRaised, syncN, syncSteps, input_bag, results, genAll,
                   genStart, sendLog, putLog, callLog, dequeued, written,
                   killResult, inAtKill, rvars>>

(***************************************************************************)
(* The specification of the worker.                                        *)
(***************************************************************************)
\* self.outputs as passed to __init__: NumOutputs sinks
SinkLists == {[o \in 1..NumOutputs |-> <<>>]}

\* self.outputs as passed to __init__: no sink (the default) or NumOutputs
SinkListsAny == {[o \in 1..n |-> <<>>] : n \in {0, NumOutputs}}

\* the state __init__ leaves, self.outputs apart
WRest ==
    /\ started = FALSE
    /\ stopped = FALSE
    /\ defunct = FALSE
    /\ killed = FALSE
    /\ input = <<>>
    /\ inputState = "Active"
    /\ stats = [in |-> 0, out |-> 0, err |-> 0]
    /\ errLog = <<>>
    /\ errSeen = <<>>
    /\ lastEmpty = -1
    /\ nextId = 1
    /\ pc = "idle"
    /\ caller = "none"
    /\ syncLeft = 0
    /\ syncRaised = "none"
    /\ syncN = 0
    /\ syncSteps = 0
    /\ input_bag = None
    /\ results = <<>>
    /\ genAll = <<>>
    /\ genStart = 0
    /\ sendLog = <<>>
    /\ putLog = <<>>
    /\ callLog = <<>>
    /\ dequeued = 0
    /\ written = 0
    /\ killResult = "none"
    /\ inAtKill = -1

\* the state __init__ leaves
WInit == WRest /\ outputs \in SinkLists

ROff ==
    /\ rpc = "off"
    /\ rInput = None
    /\ rOutput = None
    /\ rSplit = NoSplit
    /\ rResult = NoResult

Init == WInit /\ ROff

Next ==
    \/ LoopEnter
    \/ LoopCheck
    \/ Step
    \/ GenCheck
    \/ GenNext
    \/ Sleep
    \/ \E n \in 1..MaxWrites : WriteSync([i \in 1..n |-> Raw("x")])
    \/ \E m \in Messages : Write(m)
    \/ InputShutdown
    \/ Kill
    \/ Start
    \/ Stop

Spec == Init /\ [][Next]_vars

\* the worker with any number of sinks, none included
SInit == WRest /\ outputs \in SinkListsAny /\ ROff

SpecSinks == SInit /\ [][Next]_vars

\* the steps of the worker's thread
Worker == LoopCheck \/ Step \/ GenCheck \/ GenNext \/ Sleep

\* The worker's thread keeps running: a call of the transformation, a
\* request of one value from a generator, a get() bounded by the polling
\* period and a sleep() of one period all end.
SpecLive == Init /\ [][Next]_vars /\ WF_vars(Worker)

(***************************************************************************)
(* The specification of the resolution protocol alone.                     *)
(***************************************************************************)
ROn ==
    /\ rpc = "input"
    /\ rInput \in ResolveInputBags
    /\ rOutput \in ResolveOutputs
    /\ rSplit = NoSplit
    /\ rResult = NoResult

RInit == ROn /\ WInit

\* a call split_tokens(rOutput)
ApplySplitTokens ==
    /\ rpc = "input"
    /\ rSplit' = split_tokens(rOutput)
    /\ rpc' = "split"
    /\ UNCHANGED <<rInput, rOutput, rResult, wvars>>

\* a call _resolve(rInput, rOutput)
ApplyResolve ==
    /\ rpc \in {"input", "split"}
    /\ rResult' = _resolve(rInput, rOutput, rInput.id + 2)
    /\ rpc' = "resolved"
    /\ UNCHANGED <<rInput, rOutput, rSplit, wvars>>

RNext == ApplySplitTokens \/ ApplyResolve

SpecResolve == RInit /\ [][RNext]_vars

(***************************************************************************)
(* Properties.                                                             *)
(***************************************************************************)
Last(s) == s[Len(s)]

\* a step in which send() was called
SendStep == Len(sendLog') = Len(sendLog) + 1

\* C1: every call send(value) takes exactly one route, chosen by the value's
\* markers: an error-marked Bag reaches the error handler only, a loopback-marked
\* Bag without the error marker is put on the worker's own input queue only, any
\* other value is put once on every sink of outputs and nowhere else; and no
\* sink is handed anything but by a call of send.
C1_SendTakesOneRoute ==
    [][/\ Len(sendLog') \in {Len(sendLog), Len(sendLog) + 1}
       /\ ~SendStep => outputs' = outputs
       /\ SendStep =>
            LET v == Last(sendLog')
            IN  CASE iserrorbag(v) ->
                       /\ errLog' = Append(errLog, v.args)
                       /\ putLog' = putLog
                       /\ outputs' = outputs
                  [] isloopbackbag(v) /\ ~iserrorbag(v) ->
                       /\ putLog' = Append(putLog, v)
                       /\ input' # <<>> /\ Last(input') = v
                       /\ errLog' = errLog
                       /\ outputs' = outputs
                  [] OTHER ->
                       /\ \A o \in DOMAIN outputs : outputs'[o] = Append(outputs[o], v)
                       /\ errLog' = errLog
                       /\ putLog' = putLog]_vars

\* C1 witness: send() was called with a Bag carrying both markers and with a
\* Bag carrying the loopback marker alone.
C1_Witness ==
    /\ \E i \in DOMAIN sendLog : iserrorbag(sendLog[i]) /\ isloopbackbag(sendLog[i])
    /\ \E i \in DOMAIN sendLog : ~iserrorbag(sendLog[i]) /\ isloopbackbag(sendLog[i])

\* C2: a call of kill() before start() or after stop() raises and leaves killed
\* as it was; any other call sets killed, and should_loop() is false right
\* after it.
C2_KillContract ==
    /\ [][(killResult' # killResult \/ killed' # killed) =>
            IF ~started \/ stopped
            THEN killResult' = "RuntimeError" /\ killed' = killed
            ELSE killResult' = "ok" /\ killed' /\ ~should_loop']_vars
    /\ []((killResult = "ok" => killed) /\ (killed => ~should_loop))

\* C2 witness: a call of kill() succeeded, and a later one, after stop(), raised.
C2_Witness == stopped /\ killed /\ killResult = "RuntimeError"

\* the worker's thread is in the generator loop of handle_results
InGen == pc \in {"gen_check", "gen_next"}

\* the values requested from the generator of the step so far
GenRequested == Len(genAll) - Len(results)

\* C3 as claimed: while handle_results iterates a generator, the calls of send
\* it has made are one for each value requested so far, in the order yielded,
\* each the resolution of the yielded value against the Bag of the step; the
\* iteration ends, short of a checkpoint that finds killed set, with the N
\* values sent; and a checkpoint that finds killed set ends it with nothing
\* more requested or sent.
C3_Claim ==
    /\ [](InGen =>
            /\ Len(sendLog) = genStart + GenRequested
            /\ \A k \in 1..GenRequested :
                 LET sent == sendLog[genStart + k]
                 IN  sent = _resolve(input_bag, genAll[k], sent.id).bag)
    /\ [][/\ (pc = "gen_next" /\ ~InGen') =>
                Len(sendLog') = genStart + Len(genAll)
          /\ (pc = "gen_check" /\ killed /\ pc' # pc) =>
                /\ ~InGen'
                /\ results' = <<>>
                /\ sendLog' = sendLog
          /\ (InGen /\ SendStep) => pc = "gen_next" /\ results' = Tail(results)]_vars

\* step() is about to raise exc while it processes an item: the call of the
\* transformation raises it, or the resolution of what the call returned or
\* of what its generator yields next
StepRaises(exc) ==
    \/ /\ pc = "step"
       /\ Len(callLog') = Len(callLog) + 1
       /\ LET r == Last(callLog').result
          IN  \/ r = Raised(exc)
              \/ /\ r.kind \notin {"raise", "gen"}
                 /\ truthy(r)
                 /\ _resolve(Last(callLog').bag, r, nextId).raised = exc
    \/ /\ pc = "gen_next"
       /\ pc' # pc
       /\ results # <<>>
       /\ _resolve(input_bag, Head(results), nextId).raised = exc

\* C4: an ordinary failure while a step() of loop() processes an item is handed
\* to the error handler once and counted once in err, nothing is sent, the
\* items queued behind the failing one stay queued, and the loop goes on to
\* test should_loop().
C4_OrdinaryFailureIsolated ==
    /\ [][\A exc \in OrdinaryExceptions :
            (caller = "loop" /\ StepRaises(exc)) =>
               /\ errLog' = Append(errLog, exc_info(exc))
               /\ stats'.err = stats.err + 1
               /\ stats'.out = stats.out
               /\ sendLog' = sendLog
               /\ input' = IF pc = "step" THEN Tail(skip_tokens(input)) ELSE input
               /\ inputState' = inputState
               /\ pc' = "check"]_vars
    /\ [](stats.err = Len(errLog))

\* C4 witness: of two messages loop() dequeued the first failed, once, and the
\* second was processed and sent on.
C4_Witness ==
    /\ caller = "loop"
    /\ Len(callLog) = 2
    /\ callLog[1].result = Raised("Exception")
    /\ callLog[2].result = Raw("x")
    /\ stats = [in |-> 2, out |-> 1, err |-> 1]

\* a call that returned one truthy value that is no generator
OneOutput(c) == c.result.kind \notin {"raise", "gen"} /\ truthy(c.result)

\* C5 as claimed: once every call made so far returned one truthy value that
\* is no generator (and no error-marked Bag, which is a failure for the error
\* handler), in and out equal the number of calls and the error handler was
\* never called.
C5_Claim ==
    (\A i \in DOMAIN callLog : OneOutput(callLog[i]) /\ ~iserrorbag(callLog[i].result)) =>
        /\ stats.in = Len(callLog)
        /\ stats.out = Len(callLog)
        /\ stats.err = 0
        /\ errLog = <<>>

\* C6: in is the number of items the queue handed out; a step() whose get()
\* finds no item (Empty, or InactiveReadableError) leaves the counters alone.
C6_InCountsDequeues ==
    /\ [](stats.in = dequeued)
    /\ [][(pc = "step" /\ skip_tokens(input) = <<>> /\ pc' # pc) =>
            stats' = stats /\ dequeued' = dequeued]_vars

\* C6 witness: after one item was dequeued, a get() of loop() ended in Empty.
C6_Witness == pc = "sleep" /\ dequeued = 1 /\ stats.in = 1

\* C7 as claimed: resolving NOT_MODIFIED, or the tuple (NOT_MODIFIED,),
\* returns the input Bag itself and raises nothing.
C7_Claim ==
    (rpc = "resolved" /\ rOutput \in {NOT_MODIFIED, Tuple(<<NOT_MODIFIED>>)}) =>
        rResult.raised = "none" /\ rResult.bag = rInput

\* the length of the longest leading run of flag tokens of a tuple
LeadingFlags(elems) ==
    CHOOSE n \in 0..Len(elems) :
        /\ \A i \in 1..n : isflag(elems[i])
        /\ n < Len(elems) => ~isflag(elems[n + 1])

\* C8 as claimed: of every tuple, the empty one and the ones of flag tokens
\* only too, split_tokens returns the longest leading run of flag tokens and
\* the rest from the first element that is no flag on.
C8_Claim ==
    (rpc = "split" /\ istuple(rOutput)) =>
        /\ rSplit.raised = "none"
        /\ rSplit.tokens = SubSeq(rOutput.elems, 1, LeadingFlags(rOutput.elems))
        /\ rSplit.data = SubSeq(rOutput.elems, LeadingFlags(rOutput.elems) + 1,
                                Len(rOutput.elems))
        /\ rSplit.tokens \o rSplit.data = rOutput.elems

\* the items a step put on the input queue
Added == SubSeq(putLog', Len(putLog) + 1, Len(putLog'))

\* a call that returned its one argument
IdentityCall(c) == c.bag.args = <<c.result>>

C10_InactiveEndsLoop ==
    [][/\ (/\ caller = "loop"
           /\ pc = "step"
           /\ inputState = "ShutDown"
           /\ skip_tokens(input) = <<>>
           /\ pc' # pc) =>
              /\ pc' = "done"
              /\ errLog' = errLog
              /\ stats' = stats
              /\ sendLog' = sendLog
       /\ pc = "done" => pc' = "done" /\ dequeued' = dequeued /\ stats' = stats]_vars

\* C10 witness: loop() has ended on the shut down, drained queue, after it
\* processed an item.
C10_Witness ==
    /\ pc = "done"
    /\ inputState = "ShutDown"
    /\ input = <<>>
    /\ ~killed
    /\ ~defunct
    /\ errLog = <<>>
    /\ dequeued >= 1

\* C11: an UnrecoverableError out of a step() of loop() is handed to the error
\* handler once, while the input queue is still as it was, then the queue is
\* shut down and loop() ends, nothing being sent; once loop() has ended so,
\* the queue stays ShutDown and no item is dequeued.
C11_UnrecoverableShutsDown ==
    /\ [][(caller = "loop" /\ StepRaises("UnrecoverableError")) =>
            /\ errLog' = Append(errLog, exc_info("UnrecoverableError"))
            /\ errSeen' = Append(errSeen, inputState)
            /\ stats'.err = stats.err + 1
            /\ sendLog' = sendLog
            /\ inputState' = "ShutDown"
            /\ pc' = "done"]_vars
    /\ []((errLog # <<>> /\ Last(errLog) = exc_info("UnrecoverableError")) =>
            pc = "done" /\ inputState = "ShutDown")
    /\ [][(pc = "done" /\ inputState = "ShutDown") =>
            /\ pc' = "done"
            /\ inputState' = "ShutDown"
            /\ dequeued' = dequeued
            /\ callLog' = callLog]_vars

\* C11 witness: loop() has ended on an UnrecoverableError reported while the
\* queue was active, with a written item left on the queue.
C11_Witness ==
    /\ pc = "done"
    /\ errLog # <<>>
    /\ Last(errLog) = exc_info("UnrecoverableError")
    /\ Last(errSeen) = "Active"
    /\ inputState = "ShutDown"
    /\ skip_tokens(input) # <<>>

\* C12: a failure out of a step() of loop() that is no Exception (such as
\* KeyboardInterrupt) is handed to the error handler once and loop() ends with
\* no other step(); the input queue is not shut down by it.
C12_SevereFailureStopsLoop ==
    /\ [][(caller = "loop" /\ StepRaises("KeyboardInterrupt")) =>
            /\ errLog' = Append(errLog, exc_info("KeyboardInterrupt"))
            /\ stats'.err = stats.err + 1
            /\ sendLog' = sendLog
            /\ inputState' = inputState
            /\ pc' = "done"]_vars
    /\ [][(errLog # <<>> /\ Last(errLog) = exc_info("KeyboardInterrupt")) =>
            /\ pc = "done"
            /\ pc' = "done"
            /\ callLog' = callLog
            /\ dequeued' = dequeued
            /\ errLog' = errLog]_vars

\* C12 witness: loop() has ended on a KeyboardInterrupt, the queue still active
\* and holding an item.
C12_Witness ==
    /\ pc = "done"
    /\ errLog # <<>>
    /\ Last(errLog) = exc_info("KeyboardInterrupt")
    /\ stats.err = 1
    /\ inputState = "Active"
    /\ skip_tokens(input) # <<>>

\* C13: a step() of loop() that meets Empty calls no error handler, changes no
\* counter, sends nothing and leaves the loop sleeping; the sleep over, the
\* loop tests should_loop() again, and a step() that then finds an item on
\* the queue processes it.
C13_EmptyIsRetried ==
    [][/\ (/\ caller = "loop"
           /\ pc = "step"
           /\ inputState = "Active"
           /\ skip_tokens(input) = <<>>
           /\ pc' # pc) =>
              /\ pc' = "sleep"
              /\ errLog' = errLog
              /\ stats' = stats
              /\ sendLog' = sendLog
              /\ outputs' = outputs
              /\ killed' = killed
              /\ inputState' = inputState
       /\ (pc = "sleep" /\ pc' # pc) =>
              /\ pc' = "check"
              /\ UNCHANGED <<errLog, stats, sendLog, outputs, killed, input,
                             inputState>>
       /\ (pc = "check" /\ pc' # pc) =>
              pc' = IF defunct \/ killed THEN "done" ELSE "step"
       /\ (caller = "loop" /\ pc = "step" /\ skip_tokens(input) # <<>> /\ pc' # pc) =>
              /\ Len(callLog') = Len(callLog) + 1
              /\ Last(callLog').bag = Head(skip_tokens(input))
              /\ stats'.in = stats.in + 1]_vars

\* C13 witness: loop() met Empty before any item was dequeued, and has since
\* processed a message and sent its result on.
C13_Witness ==
    /\ caller = "loop"
    /\ lastEmpty = 0
    /\ Len(callLog) = 1
    /\ stats = [in |-> 1, out |-> 1, err |-> 0]
    /\ \A o \in DOMAIN outputs : Len(outputs[o]) = 1

\* C14: a call that returns None or a falsy value that is no generator (the
\* empty tuple) leads to no send(): out, the sinks, the error handler and the
\* input queue get nothing, and in counts the dequeue of the step.
C14_FalsyResultSendsNothing ==
    [][(/\ Len(callLog') = Len(callLog) + 1
        /\ Last(callLog').result.kind \notin {"raise", "gen"}
        /\ ~truthy(Last(callLog').result)) =>
           /\ sendLog' = sendLog
           /\ stats'.out = stats.out
           /\ stats'.err = stats.err
           /\ outputs' = outputs
           /\ errLog' = errLog
           /\ putLog' = putLog
           /\ input' = Tail(skip_tokens(input))
           /\ stats'.in = stats.in + 1]_vars

\* C14 witness: the one call made returned the empty tuple; in is 1 and
\* nothing was sent.
C14_Witness ==
    /\ Len(callLog) = 1
    /\ callLog[1].result = Tuple(<<>>)
    /\ stats = [in |-> 1, out |-> 0, err |-> 0]
    /\ sendLog = <<>>
    /\ pc \in {"check", "idle"}

\* the exceptions a step() lets out to loop() in this model
StepExceptions == OrdinaryExceptions \cup {"UnrecoverableError", "KeyboardInterrupt"}

\* the values held by the sinks and the items the worker's steps put on its
\* own input queue carry no error marker
NoErrorDownstream ==
    /\ \A o \in DOMAIN outputs : \A i \in DOMAIN outputs[o] : ~iserrorbag(outputs[o][i])
    /\ \A i \in DOMAIN putLog : ~iserrorbag(putLog[i])

\* C15 as claimed: every call of the error handler is made by send() with an
\* error-marked Bag, and no sink or input queue holds an error-marked Bag.
C15_Claim ==
    /\ [][errLog' # errLog =>
            /\ SendStep
            /\ iserrorbag(Last(sendLog'))
            /\ errLog' = Append(errLog, Last(sendLog').args)]_vars
    /\ []NoErrorDownstream

\* C15 amended: a failure reaches the error handler, and nothing else, in one
\* of two ways: send() is called with an error-marked Bag, whose arguments the
\* handler gets, or a step() of loop() raises, and loop() hands the exception
\* to the handler itself, without a Bag and without send(); either way no
\* sink and no input queue is handed anything, and in every state no value a
\* sink holds and no item put on the input queue is an error-marked Bag.
C15_ErrorsStayOffOutputs ==
    /\ [][errLog' # errLog =>
            /\ outputs' = outputs
            /\ putLog' = putLog
            /\ \/ /\ SendStep
                  /\ iserrorbag(Last(sendLog'))
                  /\ errLog' = Append(errLog, Last(sendLog').args)
               \/ /\ caller = "loop"
                  /\ sendLog' = sendLog
                  /\ \E exc \in StepExceptions :
                        /\ StepRaises(exc)
                        /\ errLog' = Append(errLog, exc_info(exc))]_vars
    /\ [][(SendStep /\ iserrorbag(Last(sendLog'))) =>
            /\ errLog' = Append(errLog, Last(sendLog').args)
            /\ outputs' = outputs
            /\ putLog' = putLog]_vars
    /\ []NoErrorDownstream

\* C15 witness: the error handler got an exception of a step() and an
\* error-marked Bag passed to send(), and the sinks hold a forwarded value.
C15_Witness ==
    /\ \E i \in DOMAIN errLog : \E exc \in StepExceptions : errLog[i] = exc_info(exc)
    /\ \E i \in DOMAIN sendLog : iserrorbag(sendLog[i])
    /\ \A o \in DOMAIN outputs : outputs[o] # <<>>

\* C16: from a successful kill() made while loop() runs on, loop() dequeues at
\* most one more item, in the step() it had already decided on; the next
\* test of should_loop() ends the loop, whatever the queue still holds.
C16_KillSchedulesNoNextItem ==
    /\ [](inAtKill >= 0 =>
            /\ killed
            /\ caller = "loop"
            /\ dequeued <= inAtKill + 1
            /\ stats.in <= inAtKill + 1
            /\ Len(callLog) <= inAtKill + 1)
    /\ [][inAtKill >= 0 =>
            /\ (pc = "check" /\ pc' # pc) => pc' = "done"
            /\ dequeued' # dequeued => pc = "step" /\ dequeued = inAtKill
            /\ dequeued = inAtKill + 1 => stats'.in = stats.in /\ pc' # "step"
            /\ pc = "done" => pc' = "done" /\ callLog' = callLog]_vars

\* C16 witness: kill() came while loop() had decided on its first step(); that
\* step() dequeued an item, and loop() then ended with another item queued.
C16_Witness ==
    /\ inAtKill = 0
    /\ stats.in = 1
    /\ pc = "done"
    /\ skip_tokens(input) # <<>>

\* the token part and the data part of an output as the resolution protocol
\* defines them: the longest leading run of flags of a tuple and its rest
SplitAsSpecified(output) ==
    IF istoken(output) THEN [tokens |-> <<output>>, data |-> <<>>]
    ELSE IF ~istuple(output) THEN [tokens |-> <<>>, data |-> <<output>>]
    ELSE [tokens |-> SubSeq(output.elems, 1, LeadingFlags(output.elems)),
          data   |-> SubSeq(output.elems, LeadingFlags(output.elems) + 1,
                            Len(output.elems))]

\* C17 as claimed: _resolve returns output itself when output is a Bag; the
\* input Bag itself when the token part of output is the one token
\* NOT_MODIFIED, whatever the data; and in every other case (no leading flag,
\* two or more leading flags, a bare BEGIN or END, empty data) a new Bag, not
\* the input Bag, wrapping the data part.
C17_Claim ==
    rpc = "resolved" =>
        /\ rResult.raised = "none"
        /\ IF isbag(rOutput) THEN rResult.bag = rOutput
           ELSE IF SplitAsSpecified(rOutput).tokens = <<NOT_MODIFIED>>
                THEN rResult.bag = rInput
           ELSE /\ isbag(rResult.bag)
                /\ rResult.bag.id # rInput.id
                /\ rResult.bag # rInput
                /\ rResult.bag =
                     Bag(Tuple(SplitAsSpecified(rOutput).data), rResult.bag.id)

\* a value send() forwards to the sinks
Forwarded(v) == ~iserrorbag(v) /\ ~isloopbackbag(v)

\* the Bags put on the input queue, in the order put
BagsPut == SelectSeq(putLog, isbag)

\* C18: the items are processed in the order they were put on the queue; every
\* send() is made by the step() of the item dequeued last, with the resolution
\* of what that item's call returned or yielded; and every sink holds exactly
\* the forwarded values, in the order sent, so all sinks hold the same
\* sequence, ordered as the items that produced the values were dequeued.
C18_OutputsKeepInputOrder ==
    /\ [](/\ Len(callLog) <= Len(BagsPut)
          /\ \A i \in DOMAIN callLog : callLog[i].bag = BagsPut[i]
          /\ \A o \in DOMAIN outputs : outputs[o] = SelectSeq(sendLog, Forwarded)
          /\ \A o1, o2 \in DOMAIN outputs : outputs[o1] = outputs[o2])
    /\ [][SendStep =>
            LET sent == Last(sendLog')
            IN  \/ /\ pc = "step"
                   /\ Len(callLog') = Len(callLog) + 1
                   /\ Last(callLog').bag = Head(skip_tokens(input))
                   /\ sent = _resolve(Last(callLog').bag,
                                      fresh(Last(callLog').result, sent.id), sent.id).bag
                \/ /\ pc = "gen_next"
                   /\ callLog' = callLog
                   /\ input_bag = Last(callLog).bag
                   /\ sent = _resolve(input_bag, Head(results), sent.id).bag]_vars

\* C18 witness: two items were dequeued; the first's generator yielded a value
\* and the second's call returned one, and every sink holds the two Bags in
\* that order.
C18_Witness ==
    /\ Len(callLog) = 2
    /\ callLog[1].result.kind = "gen"
    /\ callLog[2].result = Raw("x")
    /\ \A o \in DOMAIN outputs :
         /\ Len(outputs[o]) = 2
         /\ outputs[o][1].args = <<GenItem(1)>>
         /\ outputs[o][2].args = <<Raw("x")>>

\* C19: once kill() has succeeded while loop() runs, loop() ends, whether the
\* queue is empty or not and whether or not the call in progress returned a
\* generator that never ends.
C19_KilledLoopTerminates == (inAtKill >= 0) ~> (pc = "done")

\* C19 witness: loop() has ended after kill() cut into the iteration of a
\* generator that never ends, with an item left on the queue.
C19_Witness ==
    /\ inAtKill >= 0
    /\ pc = "done"
    /\ callLog # <<>>
    /\ Last(callLog).result = EndlessGen
    /\ errLog = <<>>
    /\ skip_tokens(input) # <<>>

\* no call made so far returned a generator
NoGenerators == \A i \in DOMAIN callLog : callLog[i].result.kind # "gen"

\* C20: out counts every call of send(), whatever the route of the value and
\* whatever the number of sinks; and as long as no call of the transformation
\* has returned a generator, out is at most in.
C20_OutAtMostIn ==
    /\ stats.out = Len(sendLog)
    /\ stats.in = Len(callLog)
    /\ NoGenerators => stats.out <= stats.in

\* C20 witness: a worker without sinks has sent a loopback-marked Bag and then
\* a value for the sinks; out counts both.
C20_Witness ==
    /\ DOMAIN outputs = {}
    /\ NoGenerators
    /\ Len(sendLog) = 2
    /\ isloopbackbag(sendLog[1])
    /\ Forwarded(sendLog[2])
    /\ stats = [in |-> 2, out |-> 2, err |-> 0]

====
